---- MODULE Spec2Model ----
(***************************************************************************)
(* Model of the quorum client of src/src/memcache/client.go.               *)
(*                                                                         *)
(* One call of one operation is modelled per behaviour: the client is      *)
(* constructed with N, W, R (NewClient), an operation is started (the      *)
(* scheduler hands back the ranked hosts), and the operation's loop runs   *)
(* one iteration per step, each iteration drawing the backend's answer.    *)
(* The history variables calls and feedback record what the client did to  *)
(* its collaborators (backend handles and scheduler).                      *)
(*                                                                         *)
(* Spec          Get, Set, Append, Incr, Delete and a call of getMulti,    *)
(*               each walking its candidate list one backend per step.     *)
(* SpecMulti     GetMulti: the caller and one goroutine per shard group,   *)
(*               interleaved; a goroutine's call of getMulti is one step.  *)
(* FairSpecMulti SpecMulti with every goroutine scheduled.                 *)
(***************************************************************************)
EXTENDS Integers, Sequences, FiniteSets, TLC

\* ---------------------------------------------------------------- bounds
MaxQ == 3          \* N, W, R range over 1..MaxQ
MaxHosts == 4      \* length of a ranked candidate list (single-key calls)
MaxCap == 4        \* capacity of the slice returned by GetHostsByKey
MaxKeys == 2       \* number of keys passed to GetMulti
MaxShardHosts == 2 \* length of a ranked candidate list (per shard, GetMulti)

\* ------------------------------------------------------- the environment
HostOrder == <<"A", "B", "C", "D", "E", "F">>
NilHost == "nil-host"       \* a nil *Host in the spare part of the array
StaleHost == "Z"            \* a host left over in the spare part of the array
SqrtElapsed == {0, 1}       \* square roots of the measured elapsed times (Get)
ShardSqrtElapsed == {1}     \* the same for the reads of a shard task
ErrTypes == {"E1", "E2"}    \* dynamic types of the errors a backend returns
IncrVals == {0, 1, 2}       \* counter values a backend returns from Incr
TheKey == "k"
NumBuckets == 2

NilErr == [tw |-> "nil", dw |-> "nil"]
NilItem == "nil-item"
Item(h, k) == <<"item", h, k>>
HostErr(et, h) == [tw |-> et, dw |-> h]
WriteFailed == [tw |-> "errorString", dw |-> "write failed"]

VARIABLES
  N, W, R,          \* Client fields
  op, pc,           \* the operation in progress and where it is
  hosts, i,         \* ranked candidates and number of loop iterations started
  cnt, suc, err_count, result,   \* loop counters of the operations
  r, ok, del_r, targets, err,    \* named results
  calls, feedback,  \* history: backend calls and scheduler.Feedback calls
  keys, gs,         \* GetMulti: the requested keys and their shard groups
  rs, lock, reply,  \* GetMulti: merged map, mutex owner (0 = free), channel
  g, received,      \* GetMulti: groups handled by the spawn loop, replies read
  task              \* GetMulti: the shard tasks (goroutines), by group index

svars == <<N, W, R, op, pc, hosts, i, cnt, suc, err_count, result,
           r, ok, del_r, targets, err, calls, feedback>>
vars == <<N, W, R, op, pc, hosts, i, cnt, suc, err_count, result,
          r, ok, del_r, targets, err, calls, feedback,
          keys, gs, rs, lock, reply, g, received, task>>
mvars == <<keys, gs, rs, lock, reply, g, received, task>>

Prefix(s, n) == SubSeq(s, 1, n)
Range(s) == {s[x] : x \in 1..Len(s)}

\* scheduler.Feedback(host, key, adjust, falt)
FB(h, k, a, f) == [host |-> h, key |-> k, kind |-> "fixed", score |-> a, fault |-> f]
\* the feedback -float64(math.Sqrt(t)*t) for an elapsed time t = s*s
LatencyFB(h, k, s) ==
  [host |-> h, key |-> k, kind |-> "latency", score |-> 0 - (s * (s * s)), fault |-> FALSE]

Call(h, res) == [host |-> h, res |-> res, val |-> 0]
CallVal(h, v) == [host |-> h, res |-> "val", val |-> v]

EmptyMap == [k \in {} |-> NilItem]
Put(mp, k, v) == [x \in (DOMAIN mp) \cup {k} |-> IF x = k THEN v ELSE mp[x]]
IdleTask ==
  [pc |-> "idle", keys |-> <<>>, need |-> 0, hosts |-> <<>>, i |-> 0, suc |-> 0,
   rs |-> EmptyMap, targets |-> <<>>, err |-> NilErr,
   todo |-> {}, k |-> "none", lrs |-> EmptyMap, ltargets |-> <<>>,
   calls |-> <<>>, feedback |-> <<>>]

\* NewClient: the client holds N, W, R and nothing else
Init ==
  /\ N \in 1..MaxQ /\ W \in 1..MaxQ /\ R \in 1..MaxQ
  /\ op = "none" /\ pc = "idle"
  /\ hosts = <<>> /\ i = 0
  /\ cnt = 0 /\ suc = 0 /\ err_count = 0 /\ result = 0
  /\ r = NilItem /\ ok = FALSE /\ del_r = FALSE
  /\ targets = <<>> /\ err = NilErr
  /\ calls = <<>> /\ feedback = <<>>
  /\ keys = <<>> /\ gs = <<>> /\ rs = EmptyMap
  /\ lock = 0 /\ reply = 0 /\ g = 0 /\ received = 0
  /\ task = [t \in 1..NumBuckets |-> IdleTask]

\* c.scheduler.GetHostsByKey(key): a ranked list of distinct backends
RankedLists(max) == {Prefix(HostOrder, n) : n \in 1..max}

\* entering a single-key operation: the named results are zero values
Start(o) ==
  /\ pc = "idle"
  /\ op' = o /\ pc' = "walk"
  /\ hosts' \in RankedLists(MaxHosts)
  /\ UNCHANGED <<N, W, R, i, cnt, suc, err_count, result, r, ok, del_r,
                 targets, err, calls, feedback, mvars>>

\* ------------------------------------------------------------------ Get
\* hosts[:3] followed by fail_host.Addr for each element: the slice
\* expression panics when the capacity is below 3, and reading Addr panics
\* on a nil element of the spare part of the backing array.
SliceOutcomes(hs) ==
  { IF c < 3 THEN <<"panic">>
    ELSE LET arr == hs \o [x \in 1..(c - Len(hs)) |-> sp[x]]
             first3 == Prefix(arr, 3)
         IN IF NilHost \in Range(first3) THEN <<"panic">> ELSE <<"ok", first3>>
    : c \in Len(hs)..(IF MaxCap > Len(hs) THEN MaxCap ELSE Len(hs)),
      sp \in [1..MaxCap -> {NilHost, StaleHost}] }

\* mutant: the read quorum is compared strictly
GetStopStrict(c, idx) == c > R /\ idx + 1 >= N

\* the test at client.go:60
GetStop(c, idx) == c >= R /\ idx + 1 >= N

\* mutant: the found test never succeeds
GetFoundNever(res) == FALSE

\* r != nil after an error-free host.Get (client.go:47)
GetFound(res) == res = "found"

\* mutant: the failure is not reported to the scheduler
GetErrFeedbackNone(host) == <<>>

\* the feedback Get sends when host.Get fails (client.go:44)
GetErrFeedback(host) == <<FB(host, TheKey, -10, TRUE)>>

\* mutant: the serving backend gets no latency feedback
GetFoundFeedbackNoLatency(hs, idx, s) ==
  [j \in 1..idx |-> FB(hs[j], TheKey, -1, FALSE)]

\* the feedback of Get when hs[idx + 1] returns the value (client.go:48-52):
\* its latency, then -1 for every backend ranked ahead of it
GetFoundFeedback(hs, idx, s) ==
  <<LatencyFB(hs[idx + 1], TheKey, s)>>
    \o [j \in 1..idx |-> FB(hs[j], TheKey, -1, FALSE)]

GetStep ==
  /\ pc = "walk" /\ op = "Get" /\ i < Len(hosts)
  /\ LET host == hosts[i + 1] IN
     \E res \in {"err", "miss", "found"}, s \in SqrtElapsed, et \in ErrTypes :
       /\ calls' = Append(calls, Call(host, res))
       /\ UNCHANGED <<N, W, R, op, hosts, suc, err_count, result, ok, del_r, mvars>>
       /\ IF GetFound(res)
          THEN /\ cnt' = cnt + 1
               /\ r' = Item(host, TheKey)
               /\ feedback' = feedback \o GetFoundFeedback(hosts, i, s)
               /\ targets' = <<host>>
               /\ err' = NilErr
               /\ i' = i
               /\ pc' = "done"
          ELSE LET c2 == IF res = "err" THEN cnt ELSE cnt + 1
                   e2 == IF res = "err" THEN HostErr(et, host) ELSE NilErr
                   f2 == IF res = "err"
                         THEN feedback \o GetErrFeedback(host)
                         ELSE feedback
               IN /\ cnt' = c2
                  /\ r' = NilItem
                  /\ feedback' = f2
                  /\ IF GetStop(c2, i)
                     THEN /\ err' = NilErr
                          /\ i' = i
                          /\ \E so \in SliceOutcomes(hosts) :
                               IF so[1] = "panic"
                               THEN pc' = "panic" /\ targets' = targets
                               ELSE pc' = "done" /\ targets' = targets \o so[2]
                     ELSE /\ err' = e2
                          /\ i' = i + 1
                          /\ targets' = targets
                          /\ pc' = IF i + 1 = Len(hosts) THEN "done" ELSE "walk"

\* ------------------------------------------------------------------ Set
\* err == nil && ok, client.go:158 and :181
Acked(res) == res = "ok"

\* mutant: the attempt floor is dropped from the stop test
SetStopNoN(sc, idx) == sc >= W

\* the test at client.go:164
SetStop(sc, idx) == sc >= W /\ (idx + 1) >= N

\* mutant: one acknowledgement is enough
WriteOkAny(sc) == sc > 0

\* client.go:169-175 and :190-196: the W gate of Set and Append
WriteOk(sc) == ~(sc < W)

\* mutant: a failed write sends nothing
SetFailFeedbackNone(host) == <<>>

\* the feedback Set sends for a backend that did not acknowledge (client.go:162)
SetFailFeedback(host) == <<FB(host, TheKey, -2, FALSE)>>

SetStep ==
  /\ pc = "walk" /\ op = "Set" /\ i < Len(hosts)
  /\ LET host == hosts[i + 1] IN
     \E res \in {"err", "notok", "ok"} :
       LET s2 == IF Acked(res) THEN suc + 1 ELSE suc
           t2 == IF Acked(res) THEN Append(targets, host) ELSE targets
           brk == SetStop(s2, i)
           ends == brk \/ i + 1 = Len(hosts)
       IN /\ calls' = Append(calls, Call(host, res))
          /\ suc' = s2
          /\ targets' = t2
          /\ feedback' = IF Acked(res) THEN feedback
                         ELSE feedback \o SetFailFeedback(host)
          /\ i' = IF brk THEN i ELSE i + 1
          /\ IF ends
             THEN /\ pc' = "done"
                  /\ ok' = WriteOk(s2)
                  /\ err' = IF WriteOk(s2) THEN NilErr ELSE WriteFailed
             ELSE /\ pc' = "walk"
                  /\ UNCHANGED <<ok, err>>
          /\ UNCHANGED <<N, W, R, op, hosts, cnt, err_count, result, r, del_r, mvars>>

\* --------------------------------------------------------------- Append
\* mutant: either floor ends the walk
AppendStopEither(sc, idx) == sc >= W \/ (idx + 1) >= N

\* the test at client.go:185
AppendStop(sc, idx) == sc >= W /\ (idx + 1) >= N

AppendStep ==
  /\ pc = "walk" /\ op = "Append" /\ i < Len(hosts)
  /\ LET host == hosts[i + 1] IN
     \E res \in {"err", "notok", "ok"} :
       LET s2 == IF Acked(res) THEN suc + 1 ELSE suc
           t2 == IF Acked(res) THEN Append(targets, host) ELSE targets
           brk == AppendStop(s2, i)
           ends == brk \/ i + 1 = Len(hosts)
       IN /\ calls' = Append(calls, Call(host, res))
          /\ suc' = s2
          /\ targets' = t2
          /\ i' = IF brk THEN i ELSE i + 1
          /\ IF ends
             THEN /\ pc' = "done"
                  /\ ok' = WriteOk(s2)
                  /\ err' = IF WriteOk(s2) THEN NilErr ELSE WriteFailed
             ELSE /\ pc' = "walk"
                  /\ UNCHANGED <<ok, err>>
          /\ UNCHANGED <<N, W, R, op, hosts, cnt, err_count, result, r, del_r,
                         feedback, mvars>>

\* ----------------------------------------------------------------- Incr
\* mutant: the attempt floor is dropped from the stop test
IncrStopNoN(sc, idx) == sc >= W

\* the test at client.go:215
IncrStop(sc, idx) == sc >= W /\ (idx + 1) >= N

\* mutant: the last error is kept whatever the result
IncrFinalErrKeep(res, e) == e

\* client.go:220-222
IncrFinalErr(res, e) == IF res > 0 THEN NilErr ELSE e

IncrStep ==
  /\ pc = "walk" /\ op = "Incr" /\ i < Len(hosts)
  /\ LET host == hosts[i + 1] IN
     \/ \E et \in ErrTypes :      \* e != nil: err = e; continue
          /\ calls' = Append(calls, Call(host, "err"))
          /\ i' = i + 1
          /\ IF i + 1 = Len(hosts)
             THEN pc' = "done" /\ err' = IncrFinalErr(result, HostErr(et, host))
             ELSE pc' = "walk" /\ err' = HostErr(et, host)
          /\ UNCHANGED <<suc, targets, result>>
     \/ \E v \in IncrVals :
          LET s2 == IF v > 0 THEN suc + 1 ELSE suc
              t2 == IF v > 0 THEN Append(targets, host) ELSE targets
              r2 == IF v > result THEN v ELSE result
              brk == IncrStop(s2, i)
              ends == brk \/ i + 1 = Len(hosts)
          IN /\ calls' = Append(calls, CallVal(host, v))
             /\ suc' = s2 /\ targets' = t2 /\ result' = r2
             /\ i' = IF brk THEN i ELSE i + 1
             /\ IF ends
                THEN pc' = "done" /\ err' = IncrFinalErr(r2, err)
                ELSE pc' = "walk" /\ err' = err
  /\ UNCHANGED <<N, W, R, op, hosts, cnt, err_count, r, ok, del_r, feedback, mvars>>

\* --------------------------------------------------------------- Delete
\* mutant: the walk ends at W confirmations
DeleteStopW(sc) == sc >= W

\* the test at client.go:239
DeleteStop(sc) == sc >= N

\* mutant: both conditions are required
DeleteOkBoth(sc, ec) == sc > 0 /\ ec < 2

\* the test at client.go:243
DeleteOk(sc, ec) == sc > 0 \/ ec < 2

DeleteStep ==
  /\ pc = "walk" /\ op = "Delete" /\ i < Len(hosts)
  /\ LET host == hosts[i + 1] IN
     \E res \in {"err", "notok", "ok"}, et \in ErrTypes :
       LET s2 == IF res = "ok" THEN suc + 1 ELSE suc
           ec2 == IF res = "err" THEN err_count + 1 ELSE err_count
           e2 == IF res = "err" THEN HostErr(et, host) ELSE err
           t2 == IF res = "ok" THEN Append(targets, host) ELSE targets
           brk == DeleteStop(s2)
           ends == brk \/ i + 1 = Len(hosts)
       IN /\ calls' = Append(calls, Call(host, res))
          /\ suc' = s2 /\ err_count' = ec2 /\ targets' = t2
          /\ i' = IF brk THEN i ELSE i + 1
          /\ IF ends
             THEN /\ pc' = "done"
                  /\ del_r' = DeleteOk(s2, ec2)
                  /\ err' = IF DeleteOk(s2, ec2) THEN NilErr ELSE e2
             ELSE /\ pc' = "walk"
                  /\ err' = e2
                  /\ UNCHANGED del_r
          /\ UNCHANGED <<N, W, R, op, hosts, cnt, result, r, ok, feedback, mvars>>

\* ------------------------------------------------------------- getMulti
\* mutant: the quorum never ends the walk
MultiStopNever(sc, idx) == FALSE

\* the test at client.go:99
MultiStop(sc, idx) == idx + 1 >= N /\ sc >= R

\* One iteration of the loop of getMulti (client.go:79-115) on the task record
\* tk, where the backend answers (rk, er): the keys it found and its error;
\* when the loop ends, the final rule of client.go:116-118 is applied.
GetMultiIter(tk, er, rk, s) ==
  LET host == tk.hosts[tk.i + 1]
      k0 == tk.keys[1]
      failed == er # NilErr
      err1 == IF failed THEN er ELSE tk.err
      suc1 == IF failed THEN tk.suc ELSE tk.suc + 1
      tg1 == IF failed THEN tk.targets ELSE Append(tk.targets, host)
      fb1 == tk.feedback
               \o (IF failed THEN <<FB(host, k0, -10, TRUE)>> ELSE <<>>)
               \o <<LatencyFB(host, k0, s)>>
      rs1 == [x \in (DOMAIN tk.rs) \cup rk |->
                IF x \in rk THEN Item(host, x) ELSE tk.rs[x]]
      full == Cardinality(DOMAIN rs1) = tk.need
      quorum == MultiStop(suc1, tk.i)
      Missing(k) == k \notin DOMAIN rs1
      new_keys == SelectSeq(tk.keys, Missing)
      brk == full \/ quorum \/ Len(new_keys) = 0
      err2 == IF ~full /\ quorum THEN NilErr ELSE err1
      tg2 == IF ~full /\ quorum THEN <<>> ELSE tg1
      keys2 == IF full \/ quorum THEN tk.keys ELSE new_keys
      ends == brk \/ tk.i + 1 = Len(tk.hosts)
      err3 == IF ends /\ Cardinality(DOMAIN rs1) > 0 THEN NilErr ELSE err2
  IN [tk EXCEPT !.pc = IF ends THEN "ret" ELSE "walk",
                !.i = IF brk THEN tk.i ELSE tk.i + 1,
                !.suc = suc1, !.rs = rs1, !.targets = tg2, !.err = err3,
                !.keys = keys2, !.feedback = fb1,
                !.todo = IF ends THEN DOMAIN rs1 ELSE {},
                !.calls = Append(tk.calls,
                   [host |-> host, asked |-> tk.keys, found |-> rk, failed |-> failed])]

Bucket(k) == IF k = "k3" THEN 2 ELSE 1

\* scheduler.DivideKeysByBucket(keys): one group per bucket, in input order
DivideKeysByBucket(ks) ==
  [b \in 1..NumBuckets |-> LET InB(k) == Bucket(k) = b IN SelectSeq(ks, InB)]

\* the key lists of a call: up to MaxKeys keys, repetitions allowed, listed
\* in the order of KeyOrder (the client reads a list's order only through
\* keys[0])
KeyOrder == <<"k1", "k2", "k3">>
KeyLists ==
  UNION {{[j \in 1..n |-> KeyOrder[f[j]]] :
            f \in {h \in [1..n -> 1..Len(KeyOrder)] :
                     \A x, y \in 1..n : x <= y => h[x] <= h[y]}} :
         n \in 0..MaxKeys}

\* the dynamic type of the error of a backend's GetMulti: two types occur
ShardErrType(h) == IF h \in {"A", "C", "E"} THEN "E1" ELSE "E2"

\* the answers host.GetMulti(keys) can give: an error and no pairs, or no
\* error and values for some of the keys asked
GetMultiAnswers(tk) ==
  {[er |-> HostErr(ShardErrType(tk.hosts[tk.i + 1]), tk.hosts[tk.i + 1]),
     rk |-> {}, s |-> s] : s \in ShardSqrtElapsed}
  \cup {[er |-> NilErr, rk |-> rk, s |-> s] :
      rk \in SUBSET Range(tk.keys), s \in ShardSqrtElapsed}

\* the states in which a call of getMulti can return
RECURSIVE GetMultiRuns(_)
GetMultiRuns(tk) ==
  IF tk.pc = "ret" THEN {tk}
  ELSE UNION {GetMultiRuns(nx) :
                 nx \in {GetMultiIter(tk, a.er, a.rk, a.s) : a \in GetMultiAnswers(tk)}}

\* rs, targets, err as returned at client.go:119
GetMultiResult(tk) ==
  [IdleTask EXCEPT !.pc = "ret", !.rs = tk.rs, !.targets = tk.targets,
                   !.err = tk.err, !.todo = tk.todo]

\* the key lists getMulti is called with: not empty, of one bucket
ShardKeyLists ==
  {ks \in KeyLists : Len(ks) > 0 /\ \A x, y \in Range(ks) : Bucket(x) = Bucket(y)}

\* a call of getMulti by itself, one backend per step
StartGetMultiShard ==
  /\ pc = "idle"
  /\ op' = "getMulti" /\ pc' = "walk"
  /\ \E ks \in ShardKeyLists, hs \in RankedLists(MaxShardHosts) :
       task' = [task EXCEPT ![1] =
                  [IdleTask EXCEPT !.pc = "walk", !.keys = ks,
                                   !.need = Len(ks), !.hosts = hs]]
  /\ UNCHANGED <<N, W, R, hosts, i, cnt, suc, err_count, result, r, ok, del_r,
                 targets, err, calls, feedback, keys, gs, rs, lock, reply, g, received>>

ShardStep ==
  /\ pc = "walk" /\ op = "getMulti"
  /\ \E a \in GetMultiAnswers(task[1]) :
       LET tk == GetMultiIter(task[1], a.er, a.rk, a.s) IN
       /\ task' = [task EXCEPT ![1] = tk]
       /\ pc' = IF tk.pc = "ret" THEN "done" ELSE "walk"
  /\ UNCHANGED <<N, W, R, op, hosts, i, cnt, suc, err_count, result, r, ok, del_r,
                 targets, err, calls, feedback, keys, gs, rs, lock, reply, g, received>>

\* ------------------------------------------------------------- GetMulti
\* mutant: the reply channel is unbuffered
ReplyCapNone(groups) == 0

\* make(chan bool, len(gs)), client.go:127
ReplyCap(groups) == Len(groups)

\* mutant: the merge takes no lock
LockFreeAlways(l) == TRUE

\* lock.Lock() returns only when no goroutine holds the mutex
LockFree(l) == l = 0

\* mutant: the goroutine reads the keys of the whole call
TaskKeysAll(all, ks) == all

\* the keys the goroutine works on: its argument ks (client.go:130, :143)
TaskKeys(all, ks) == ks

StartGetMulti ==
  /\ pc = "idle"
  /\ op' = "GetMulti" /\ pc' = "spawn"
  /\ keys' \in KeyLists
  /\ gs' = DivideKeysByBucket(keys')
  /\ rs' = EmptyMap
  /\ UNCHANGED <<N, W, R, hosts, i, cnt, suc, err_count, result, r, ok, del_r,
                 targets, err, calls, feedback, lock, reply, g, received, task>>

\* one iteration of the loop at client.go:128-147
MultiSpawn ==
  /\ pc = "spawn" /\ g < Len(gs)
  /\ LET ks == gs[g + 1] IN
       IF Len(ks) > 0
       THEN /\ \E hs \in RankedLists(MaxShardHosts) :
                 task' = [task EXCEPT ![g + 1] =
                            [IdleTask EXCEPT !.pc = "walk",
                                             !.keys = TaskKeys(keys, ks),
                                             !.need = Len(TaskKeys(keys, ks)),
                                             !.hosts = hs]]
            /\ reply' = reply
       ELSE /\ reply < ReplyCap(gs)
            /\ reply' = reply + 1
            /\ task' = task
  /\ g' = g + 1
  /\ pc' = IF g + 1 = Len(gs) THEN "wait" ELSE "spawn"
  /\ UNCHANGED <<N, W, R, op, hosts, i, cnt, suc, err_count, result, r, ok, del_r,
                 targets, err, calls, feedback, keys, gs, rs, lock, received>>

\* one iteration of the loop at client.go:149-151, and the return after the last
MultiReceive ==
  /\ pc = "wait" /\ received < Len(gs)
  /\ reply > 0
  /\ reply' = reply - 1
  /\ received' = received + 1
  /\ pc' = IF received + 1 = Len(gs) THEN "done" ELSE "wait"
  /\ UNCHANGED <<N, W, R, op, hosts, i, cnt, suc, err_count, result, r, ok, del_r,
                 targets, err, calls, feedback, keys, gs, rs, lock, g, task>>

\* r, t, e := c.getMulti(keys) (client.go:131): the call runs to its return
\* on the goroutine's own locals, and the goroutine keeps its three results
TaskWalk(t) ==
  /\ op = "GetMulti" /\ task[t].pc = "walk"
  /\ \E fin \in GetMultiRuns(task[t]) :
       task' = [task EXCEPT ![t] = GetMultiResult(fin)]
  /\ UNCHANGED <<svars, keys, gs, rs, lock, reply, g, received>>

\* err = e (client.go:133): the two words of the interface value are stored
\* one after the other, without synchronisation
TaskErrType(t) ==
  /\ op = "GetMulti" /\ task[t].pc = "ret" /\ task[t].err # NilErr
  /\ err' = [err EXCEPT !.tw = task[t].err.tw]
  /\ task' = [task EXCEPT ![t].pc = "errdata"]
  /\ UNCHANGED <<N, W, R, op, pc, hosts, i, cnt, suc, err_count, result, r, ok,
                 del_r, targets, calls, feedback,
                 keys, gs, rs, lock, reply, g, received>>

TaskErrData(t) ==
  /\ task[t].pc = "errdata"
  /\ err' = [err EXCEPT !.dw = task[t].err.dw]
  /\ task' = [task EXCEPT ![t].pc = "send"]
  /\ UNCHANGED <<N, W, R, op, pc, hosts, i, cnt, suc, err_count, result, r, ok,
                 del_r, targets, calls, feedback,
                 keys, gs, rs, lock, reply, g, received>>

\* lock.Lock() for the next pair of range r (client.go:135-136); the writes
\* that follow work on the map and the slice as they are now
TaskLock(t) ==
  /\ op = "GetMulti" /\ task[t].pc = "ret" /\ task[t].err = NilErr /\ task[t].todo # {}
  /\ LockFree(lock)
  /\ lock' = t
  /\ \E k \in task[t].todo :
       task' = [task EXCEPT ![t].pc = "locked", ![t].k = k,
                            ![t].lrs = rs, ![t].ltargets = targets]
  /\ UNCHANGED <<svars, keys, gs, rs, reply, g, received>>

\* mutant: the accumulated targets are overwritten
MergeTargetsReplace(acc, ts) == ts

\* targets = append(targets, t...) (client.go:138)
MergeTargets(acc, ts) == acc \o ts

\* rs[k] = v; targets = append(targets, t...); lock.Unlock() (client.go:137-139)
TaskStore(t) ==
  /\ task[t].pc = "locked"
  /\ rs' = Put(task[t].lrs, task[t].k, task[t].rs[task[t].k])
  /\ targets' = MergeTargets(task[t].ltargets, task[t].targets)
  /\ lock' = 0
  /\ task' = [task EXCEPT ![t].pc = "ret", ![t].todo = task[t].todo \ {task[t].k}]
  /\ UNCHANGED <<N, W, R, op, pc, hosts, i, cnt, suc, err_count, result, r, ok,
                 del_r, err, calls, feedback, keys, gs, reply, g, received>>

\* reply <- true (client.go:142)
TaskSend(t) ==
  /\ op = "GetMulti"
  /\ \/ task[t].pc = "send"
     \/ task[t].pc = "ret" /\ task[t].err = NilErr /\ task[t].todo = {}
  /\ reply < ReplyCap(gs)
  /\ reply' = reply + 1
  /\ task' = [task EXCEPT ![t].pc = "done"]
  /\ UNCHANGED <<svars, keys, gs, rs, lock, g, received>>

NextSingle ==
  \/ Start("Get") \/ GetStep
  \/ Start("Set") \/ SetStep
  \/ Start("Append") \/ AppendStep
  \/ Start("Incr") \/ IncrStep
  \/ Start("Delete") \/ DeleteStep

NextMulti ==
  \/ StartGetMulti \/ MultiSpawn \/ MultiReceive
  \/ \E t \in 1..NumBuckets : TaskWalk(t)
  \/ \E t \in 1..NumBuckets : TaskErrType(t)
  \/ \E t \in 1..NumBuckets : TaskErrData(t)
  \/ \E t \in 1..NumBuckets : TaskLock(t)
  \/ \E t \in 1..NumBuckets : TaskStore(t)
  \/ \E t \in 1..NumBuckets : TaskSend(t)

NextShard == StartGetMultiShard \/ ShardStep

\* the operations that walk one candidate list, one backend per step
Next == NextSingle \/ NextShard

Spec == Init /\ [][Next]_vars
\* GetMulti with its shard tasks, in the configurations of the data model
\* (R <= N); it never reads W and is explored for one value of W
InitMulti == Init /\ W = 1 /\ R <= N
SpecMulti == InitMulti /\ [][NextMulti]_vars

\* The Go scheduler runs every runnable goroutine: the caller of GetMulti and
\* each shard task take their next step when it stays enabled (a backend
\* call that returns is a step of TaskWalk).
MainStep == MultiSpawn \/ MultiReceive
TaskStep(t) ==
  \/ TaskWalk(t) \/ TaskErrType(t) \/ TaskErrData(t)
  \/ TaskLock(t) \/ TaskStore(t) \/ TaskSend(t)
FairSpecMulti ==
  /\ SpecMulti
  /\ WF_vars(MainStep)
  /\ \A t \in 1..NumBuckets : WF_vars(TaskStep(t))

\* ============================================================ properties
Returned == pc = "done"
Attempts == Len(calls)
CallHosts == [j \in 1..Len(calls) |-> calls[j].host]
CountRes(res) == Cardinality({j \in 1..Len(calls) : calls[j].res = res})
IsAck(c) == c.res = "ok"
AckHosts == LET a == SelectSeq(calls, IsAck) IN [j \in 1..Len(a) |-> a[j].host]

\* C1: Get contacts the candidates in rank order, each at most once, and the
\* first backend that returns a found value ends the call: it is the last
\* backend contacted, and Get returns its value with targets = [its address]
\* and a nil error.
C1_GetRankOrderFirstFound ==
  op = "Get" =>
    /\ CallHosts = Prefix(hosts, Attempts)
    /\ \A j \in 1..Attempts :
         calls[j].res = "found" =>
           /\ j = Attempts
           /\ Returned
           /\ r = Item(hosts[j], TheKey)
           /\ targets = <<hosts[j]>>
           /\ err = NilErr

C1_Witness ==
  /\ op = "Get" /\ Returned /\ N = 3 /\ R = 2
  /\ Attempts = 2 /\ Len(hosts) = 3
  /\ calls[1].res = "err" /\ calls[2].res = "found"
  /\ targets = <<"B">>

\* C2: when Get returns no value and no error, N candidates have been
\* attempted and at least R of them answered without a transport error
\* (for configurations with R <= N <= number of candidates).
C2_MissPathQuorum ==
  (op = "Get" /\ Returned /\ R <= N /\ N <= Len(hosts)
     /\ r = NilItem /\ err = NilErr)
    => (Attempts >= N /\ Attempts - CountRes("err") >= R)

\* C3: with at least N candidates, Set, Append and Incr return only after
\* at least N candidates have been attempted.
C3_WritesAttemptN ==
  (op \in {"Set", "Append", "Incr"} /\ Returned /\ Len(hosts) >= N)
    => Attempts >= N

C3_Witness ==
  /\ op = "Set" /\ Returned /\ N = 3 /\ W = 1 /\ Len(hosts) = 4
  /\ calls[1].res = "ok" /\ Attempts = 3

\* C4: Set and Append return ok = false with the write-failure error exactly
\* when fewer than W contacted backends acknowledged, and ok = true with a
\* nil error otherwise; targets lists the acknowledging backends in rank order.
C4_WriteGate ==
  (op \in {"Set", "Append"} /\ Returned) =>
    /\ targets = AckHosts
    /\ IF Len(AckHosts) < W
       THEN ok = FALSE /\ err = WriteFailed
       ELSE ok = TRUE /\ err = NilErr

C4_Witness ==
  /\ op = "Append" /\ Returned /\ W = 2
  /\ Len(AckHosts) = 1 /\ Attempts = 3 /\ calls[2].res = "ok"
  /\ ok = FALSE

\* C5: Delete returns r = true and a nil error when a contacted backend
\* confirmed the deletion or fewer than two contacted backends failed, and
\* r = false with a non-nil error otherwise.
C5_DeleteResult ==
  (op = "Delete" /\ Returned) =>
    IF CountRes("ok") >= 1 \/ CountRes("err") < 2
    THEN del_r = TRUE /\ err = NilErr
    ELSE del_r = FALSE /\ err # NilErr

C5_Witness ==
  /\ op = "Delete" /\ Returned /\ N = 3
  /\ Attempts = 3 /\ calls[1].res = "err" /\ calls[2].res = "err"
  /\ calls[3].res = "ok" /\ del_r = TRUE

Tasks == 1..NumBuckets
Spawned(t) == task[t].pc # "idle"
\* the shard tasks whose getMulti returned a nil error
GoodTasks == {t \in Tasks : task[t].pc \notin {"idle", "walk"} /\ task[t].err = NilErr}

\* C6: the map GetMulti returns is the union of the maps of the shard tasks
\* that finished without error: every pair of such a task is in it.
C6_NoPairLost ==
  (op = "GetMulti" /\ Returned) =>
    /\ DOMAIN rs = UNION {DOMAIN task[t].rs : t \in GoodTasks}
    /\ \A t \in GoodTasks : \A k \in DOMAIN task[t].rs : rs[k] = task[t].rs[k]

C6_Witness ==
  /\ op = "GetMulti" /\ Returned /\ keys = <<"k2", "k3">>
  /\ GoodTasks = {1, 2}
  /\ DOMAIN rs = {"k2", "k3"}
  /\ rs["k2"] = Item("B", "k2") /\ rs["k3"] = Item("A", "k3")

\* C7: GetMulti returns only after one reply per shard group has been read,
\* every spawned task has sent its reply by then, a task sends its reply
\* only after all its pairs are merged, and every call of GetMulti returns
\* with no task left before its send.
C7_BarrierInv ==
  /\ (op = "GetMulti" /\ Returned) =>
        /\ received = Len(gs)
        /\ \A t \in Tasks : (Len(gs[t]) > 0) = (task[t].pc = "done")
  /\ \A t \in Tasks :
        (task[t].pc = "done" /\ task[t].err = NilErr) =>
           /\ task[t].todo = {}
           /\ DOMAIN task[t].rs \subseteq DOMAIN rs

C7_BarrierTerminates ==
  /\ []C7_BarrierInv
  /\ (op = "GetMulti") ~> (Returned /\ \A t \in Tasks : task[t].pc \in {"idle", "done"})

C7_Witness ==
  /\ op = "GetMulti" /\ Returned
  /\ Len(gs[1]) = 2 /\ Len(gs[2]) = 0
  /\ task[1].pc = "done" /\ task[2].pc = "idle"
  /\ Cardinality(DOMAIN rs) = 2

\* C8: no operation panics.
C8_NoPanic == pc # "panic"

\* C9 (as stated): in every operation, a backend call that returns a
\* transport error is followed by a feedback for that backend flagged as a
\* fault.
C9_FaultFeedbackEverywhere ==
  \A j \in 1..Attempts :
    calls[j].res = "err" =>
      \E f \in Range(feedback) : f.host = calls[j].host /\ f.fault = TRUE

\* C9 (amended): a transport error gets the feedback -10 flagged as a fault
\* in Get and getMulti, the feedback -2 not flagged as a fault in Set, and no
\* feedback in Append, Incr and Delete; in every operation the call goes on
\* to the next candidate after the error unless N candidates have been
\* attempted or none is left.
C9_ErrorFeedbackAndProceed ==
  /\ \A j \in 1..Attempts :
       calls[j].res = "err" =>
         /\ op = "Get" => FB(calls[j].host, TheKey, -10, TRUE) \in Range(feedback)
         /\ op = "Set" => FB(calls[j].host, TheKey, -2, FALSE) \in Range(feedback)
  /\ op = "Set" => \A f \in Range(feedback) : f.fault = FALSE
  /\ op \in {"Append", "Incr", "Delete"} => feedback = <<>>
  /\ (pc \in {"done", "panic"} /\ Attempts > 0 /\ calls[Attempts].res = "err")
        => (Attempts = Len(hosts) \/ Attempts >= N)
  /\ \A t \in Tasks :
       LET cs == task[t].calls IN
       /\ \A j \in 1..Len(cs) :
            cs[j].failed =>
              FB(cs[j].host, cs[j].asked[1], -10, TRUE) \in Range(task[t].feedback)
       /\ (task[t].pc \notin {"idle", "walk"} /\ Len(cs) > 0 /\ cs[Len(cs)].failed)
             => (Len(cs) = Len(task[t].hosts) \/ Len(cs) >= N)

C9_Witness ==
  /\ op = "Get" /\ N = 3 /\ Attempts = 2
  /\ calls[1].res = "err" /\ calls[2].res = "miss"
  /\ feedback = <<FB("A", TheKey, -10, TRUE)>>

\* C10: the keys of the map GetMulti returns are requested keys, and each
\* of them is in the result of exactly one shard task.
C10_KeysFromOneShard ==
  (op = "GetMulti" /\ Returned) =>
    /\ DOMAIN rs \subseteq Range(keys)
    /\ \A k \in DOMAIN rs :
         Cardinality({t \in Tasks : Spawned(t) /\ k \in DOMAIN task[t].rs}) = 1

C10_Witness ==
  /\ op = "GetMulti" /\ Returned /\ keys = <<"k1", "k3">>
  /\ DOMAIN task[1].rs = {"k1"} /\ DOMAIN task[2].rs = {"k3"}
  /\ DOMAIN rs = {"k1", "k3"}

\* ---------------------------------------------------------------------
\* the calls among the first j whose answer is in the set rset
CountUpTo(j, rset) == Cardinality({x \in 1..j : calls[x].res \in rset})
\* the calls of Incr among the first j that returned a value > 0
PositiveUpTo(j) ==
  Cardinality({x \in 1..j : calls[x].res = "val" /\ calls[x].val > 0})
Walked == pc \in {"walk", "done"}

\* C11: Set and Append stop exactly at the first attempt j with at least W
\* acknowledgements so far and j >= N; when there is none they contact every
\* candidate.
C11_WriteStopIndex ==
  (op \in {"Set", "Append"} /\ Walked) =>
    LET StopAt(j) == CountUpTo(j, {"ok"}) >= W /\ j >= N IN
    /\ \A j \in 1..(Attempts - 1) : ~StopAt(j)
    /\ Returned => (StopAt(Attempts) \/ Attempts = Len(hosts))
    /\ (pc = "walk" /\ Attempts > 0) => ~StopAt(Attempts)

C11_Witness ==
  /\ op = "Set" /\ Returned /\ N = 2 /\ W = 2 /\ hosts = <<"A", "B", "C">>
  /\ calls[1].res = "ok" /\ calls[2].res = "notok" /\ calls[3].res = "ok"
  /\ ok = TRUE /\ targets = <<"A", "C">>

\* C12 (as stated): in Incr, after any attempt, error or not, at which the
\* success count is >= W and the attempts are >= N, no further backend is
\* contacted.
C12_IncrStopsAfterAnyAttempt ==
  op = "Incr" =>
    \A j \in 1..(Attempts - 1) : ~(PositiveUpTo(j) >= W /\ j >= N)

\* C12 (amended): in Incr, after any attempt that answered without error at
\* which the success count is >= W and the attempts are >= N, no further
\* backend is contacted; an attempt that returns an error never ends the
\* walk while a candidate is left.
C12_IncrStopsAfterErrorFree ==
  (op = "Incr" /\ Walked) =>
    LET StopAt(j) == calls[j].res = "val" /\ PositiveUpTo(j) >= W /\ j >= N IN
    /\ \A j \in 1..(Attempts - 1) : ~StopAt(j)
    /\ Returned => (StopAt(Attempts) \/ Attempts = Len(hosts))
    /\ (pc = "walk" /\ Attempts > 0) => ~StopAt(Attempts)

C12_Witness ==
  /\ op = "Incr" /\ N = 2 /\ W = 1 /\ Len(hosts) = 4
  /\ Attempts = 3 /\ Returned
  /\ calls[1].res = "val" /\ calls[1].val = 1
  /\ calls[2].res = "err"
  /\ calls[3].res = "val" /\ calls[3].val = 0

\* C13 (as stated): with at least N candidates, Delete contacts exactly N
\* backends.
C13_DeleteContactsExactlyN ==
  (op = "Delete" /\ Returned /\ Len(hosts) >= N) => Attempts = N

\* C13 (amended): Delete walks the ranked backends until N of them have
\* confirmed the deletion: it stops at the first attempt after which N
\* confirmations are counted and otherwise contacts every candidate, so
\* with at least N candidates it contacts at least N backends.
C13_DeleteStopsAtNConfirmations ==
  (op = "Delete" /\ Walked) =>
    LET StopAt(j) == CountUpTo(j, {"ok"}) >= N IN
    /\ \A j \in 1..(Attempts - 1) : ~StopAt(j)
    /\ Returned => (StopAt(Attempts) \/ Attempts = Len(hosts))
    /\ (Returned /\ Len(hosts) >= N) => Attempts >= N

C13_Witness ==
  /\ op = "Delete" /\ Returned /\ N = 2 /\ Len(hosts) = 4
  /\ Attempts = 3
  /\ calls[1].res = "ok" /\ calls[2].res = "notok" /\ calls[3].res = "ok"

\* the latency feedbacks sent so far for the backend h
LatencyCount(h) ==
  Cardinality({x \in 1..Len(feedback) :
                 feedback[x].kind = "latency" /\ feedback[x].host = h})
GetEnded == pc \in {"done", "panic"}

\* C14 (as stated): when Get returns, every backend that answered without
\* error, with or without a value, has received exactly one latency feedback.
C14_LatencyFeedbackOnMiss ==
  (op = "Get" /\ GetEnded) =>
    \A x \in 1..Attempts :
      calls[x].res \in {"miss", "found"} => LatencyCount(calls[x].host) = 1

\* C14 (amended): in Get a backend that answers without error and without a
\* value receives no feedback for that answer and the walk moves on; only
\* the backend that returns the value receives a latency feedback, exactly
\* one, sent first, followed by -1 for each backend ranked ahead of it.
C14_LatencyFeedbackOnlyOnFound ==
  op = "Get" =>
    /\ \A x \in 1..Attempts :
         LatencyCount(calls[x].host) = (IF calls[x].res = "found" THEN 1 ELSE 0)
    /\ Len(feedback) = CountRes("err")
         + (IF CountRes("found") > 0 THEN Attempts ELSE 0)
    /\ CountRes("found") > 0 =>
         /\ feedback[CountRes("err") + 1].kind = "latency"
         /\ \A x \in 1..(Attempts - 1) :
              feedback[CountRes("err") + 1 + x]
                = FB(calls[x].host, TheKey, -1, FALSE)

C14_Witness ==
  /\ op = "Get" /\ Returned /\ Attempts = 3
  /\ calls[1].res = "miss" /\ calls[2].res = "err" /\ calls[3].res = "found"
  /\ LatencyCount("A") = 0 /\ LatencyCount("C") = 1

\* the largest value among the error-free answers of Incr, 0 when none is
\* positive
MaxVal ==
  LET vs == {0} \cup {calls[x].val : x \in {y \in 1..Attempts : calls[y].res = "val"}}
  IN CHOOSE m \in vs : \A v \in vs : v <= m
PositiveHosts == SelectSeq(calls, LAMBDA c : c.res = "val" /\ c.val > 0)

\* C15: Incr returns the largest value returned by a contacted backend that
\* answered without error (0 when none is positive) and a nil error
\* whenever that value is positive, whether or not W successes were
\* reached; a backend is a success and is listed in targets only when its
\* value is > 0.
C15_IncrMaxResult ==
  (op = "Incr" /\ Walked) =>
    /\ result = MaxVal
    /\ suc = Len(PositiveHosts)
    /\ targets = [x \in 1..Len(PositiveHosts) |-> PositiveHosts[x].host]
    /\ (Returned /\ result > 0) => err = NilErr

C15_Witness ==
  /\ op = "Incr" /\ Returned /\ W = 3 /\ Attempts = 3
  /\ calls[1].res = "val" /\ calls[1].val = 1
  /\ calls[2].res = "err"
  /\ calls[3].res = "val" /\ calls[3].val = 2
  /\ result = 2 /\ err = NilErr /\ suc = 2

\* the walk of the call of getMulti by itself
ShardCalls == task[1].calls
\* the keys the call was given, and those found by its first j attempts
ShardAsked == IF Len(ShardCalls) = 0 THEN {} ELSE Range(ShardCalls[1].asked)
ShardFoundUpTo(j) == UNION {ShardCalls[x].found : x \in 1..j}
ShardGoodUpTo(j) == Cardinality({x \in 1..j : ~ShardCalls[x].failed})

\* C16: getMulti returns a non-nil error only with an empty result map (a
\* key resolved by any backend makes the error nil), and its walk goes no
\* further than the first attempt after which every requested key is found
\* or the attempts are >= N and the error-free answers >= R.
C16_ShardErrorOnlyWhenEmpty ==
  op = "getMulti" =>
    LET StopAt(j) == \/ ShardAsked \subseteq ShardFoundUpTo(j)
                     \/ (j >= N /\ ShardGoodUpTo(j) >= R) IN
    /\ \A j \in 1..(Len(ShardCalls) - 1) : ~StopAt(j)
    /\ (pc = "walk" /\ Len(ShardCalls) > 0) => ~StopAt(Len(ShardCalls))
    /\ Returned =>
         /\ DOMAIN task[1].rs = ShardFoundUpTo(Len(ShardCalls))
         /\ task[1].err # NilErr => DOMAIN task[1].rs = {}
         /\ DOMAIN task[1].rs # {} => task[1].err = NilErr
         /\ StopAt(Len(ShardCalls)) \/ Len(ShardCalls) = Len(task[1].hosts)

C16_Witness ==
  /\ op = "getMulti" /\ Returned /\ N = 3 /\ R = 2
  /\ Len(ShardCalls) = 2 /\ ShardAsked = {"k1", "k2"}
  /\ ShardCalls[1].failed /\ ShardCalls[2].found = {"k1"}
  /\ task[1].err = NilErr /\ DOMAIN task[1].rs = {"k1"}

C16_QuorumWitness ==
  /\ op = "getMulti" /\ Returned /\ N = 1 /\ R = 1
  /\ Len(ShardCalls) = 1 /\ Len(task[1].hosts) = 2
  /\ ShardAsked = {"k1", "k2"} /\ ShardCalls[1].found = {}
  /\ ~ShardCalls[1].failed

\* the shard tasks whose getMulti returned an error
FailedTasks == {t \in Tasks : Spawned(t) /\ task[t].pc # "walk" /\ task[t].err # NilErr}

\* C17 (as stated): under every interleaving GetMulti returns a non-nil
\* error exactly when a shard task returned an error, the error it returns
\* is the error of one of the failing shards, and a failing shard erases no
\* key merged by another shard.
C17_ErrorIsOneShardsError ==
  (op = "GetMulti" /\ Returned) =>
    /\ err # NilErr <=> FailedTasks # {}
    /\ err # NilErr => \E t \in FailedTasks : err = task[t].err
    /\ \A t \in GoodTasks : DOMAIN task[t].rs \subseteq DOMAIN rs

\* the occurrences of h in the sequence sq
Occurrences(sq, h) == Cardinality({x \in 1..Len(sq) : sq[x] = h})
RECURSIVE SumTasks(_, _)
SumTasks(F(_), n) == IF n = 0 THEN 0 ELSE F(n) + SumTasks(F, n - 1)

\* C18 (as stated): the targets GetMulti returns hold the target list of
\* every shard task that finished without error exactly once, however many
\* keys that shard resolved.
C18_ShardTargetsOnce ==
  (op = "GetMulti" /\ Returned) =>
    \A h \in Range(HostOrder) :
      LET Share(t) == IF t \in GoodTasks
                      THEN Occurrences(task[t].targets, h) ELSE 0
      IN Occurrences(targets, h) = SumTasks(Share, NumBuckets)

\* C18 (amended): the targets GetMulti returns hold the target list of a
\* shard task that finished without error once for every key that shard
\* resolved: twice for two keys, not at all for none; a shard that failed
\* adds nothing.
C18_ShardTargetsOncePerKey ==
  (op = "GetMulti" /\ Returned) =>
    \A h \in Range(HostOrder) :
      LET Share(t) == IF t \in GoodTasks
                      THEN Cardinality(DOMAIN task[t].rs)
                             * Occurrences(task[t].targets, h)
                      ELSE 0
      IN Occurrences(targets, h) = SumTasks(Share, NumBuckets)

C18_Witness ==
  /\ op = "GetMulti" /\ Returned /\ keys = <<"k1", "k2">>
  /\ DOMAIN task[1].rs = {"k1", "k2"} /\ task[1].targets = <<"A">>
  /\ targets = <<"A", "A">>

FailedCalls == SelectSeq(calls, LAMBDA c : ~Acked(c.res))

\* C20: Set sends exactly one feedback of -2, not flagged as a fault, for
\* each contacted backend that failed (error or not-ok) and none for one
\* that succeeded; Append sends no feedback at all.
C20_WritePathFeedback ==
  /\ op = "Set" =>
       feedback = [x \in 1..Len(FailedCalls) |->
                     FB(FailedCalls[x].host, TheKey, -2, FALSE)]
  /\ op = "Append" => feedback = <<>>

C20_Witness ==
  /\ op = "Set" /\ Returned /\ Attempts = 3
  /\ calls[1].res = "err" /\ calls[2].res = "ok" /\ calls[3].res = "notok"
  /\ Len(feedback) = 2

C20_AppendWitness ==
  /\ op = "Append" /\ Returned /\ Attempts = 3
  /\ calls[1].res = "err" /\ calls[2].res = "ok" /\ calls[3].res = "notok"
====
